---- MODULE Spec2Model ----
(***************************************************************************)
(* A model of the AI orchestration layer of smart-interviewer:             *)
(*   backend/services/ai_service.py        provider adapters and AIService *)
(*   backend/services/question_generator.py                                *)
(*   backend/services/answer_analyzer.py                                   *)
(*   backend/services/report_generator.py                                  *)
(*                                                                         *)
(* Request handlers run on the threads of the Flask server (app.run is     *)
(* threaded), each driving its coroutine with asyncio.run; the only state  *)
(* they share is AIService.current_provider / current_instance.  A step of *)
(* the model is one access to that shared state, or a stretch of code that *)
(* touches only the thread's own locals.                                   *)
(*                                                                         *)
(* Three specifications:                                                   *)
(*   Spec       configure_provider racing with Service-level calls         *)
(*   SpecGen    the domain generators on top of the Service                *)
(*   SpecParse  the structured-response parse over every short response   *)
(***************************************************************************)
EXTENDS Integers, Sequences, FiniteSets, TLC

VARIABLES
    current_provider,   \* AIService.current_provider ("None" or a catalog name)
    current_instance,   \* AIService.current_instance (an adapter object or NoInstance)
    provider_writer,    \* history: the configure call that last wrote current_provider
    cfg,                \* per configuring thread: the frame of configure_provider
    req,                \* per request thread: the frame of the running operation
    response_text,      \* SpecParse: the text the provider returned
    structured_result   \* SpecParse: what generate_structured_response made of it

vars == <<current_provider, current_instance, provider_writer, cfg, req,
          response_text, structured_result>>

-----------------------------------------------------------------------------
(* Bounds of the model *)

\* longest provider response, in tokens, that SpecParse enumerates
MaxLen == 6
\* configure_provider calls each configuring thread makes
MaxConfigs == 1
\* operations each request thread runs
MaxOps == 1

-----------------------------------------------------------------------------
(* JSON texts and values.                                                  *)
(*                                                                         *)
(* A response text is a sequence of lexical tokens:                        *)
(*   "{" "}"        the braces of a JSON object                            *)
(*   a key token    a member name with its colon (and the comma before it) *)
(*   a literal      a complete JSON value that is not an object: a number, *)
(*                  a string, an array, true, false, null                  *)
(*   "w"            a word of prose                                        *)
(*   "w{" "w}"      a stretch of prose with a brace character in it, such  *)
(*                  as "{as" or "ok}"                                      *)

KeyTokens ==
    {"questions", "followup_questions", "next_steps", "other",
     "overall_rating", "detailed_scores",
     "relevance", "completeness", "clarity", "specificity", "professionalism"}

\* the literal of a number, and the number a literal denotes (-1: not one)
NumLit(n) == ToString(n)
NumVal(tok) ==
    IF \E n \in 0..20 : NumLit(n) = tok
    THEN CHOOSE n \in 0..20 : NumLit(n) = tok
    ELSE -1

LitTokens == {NumLit(n) : n \in 0..15} \cup {"lit"}

ProseTokens == {"w", "w{", "w}"}

\* the characters the regular expression of the brace search looks for
HasOpenBrace(tok) == tok \in {"{", "w{"}
HasCloseBrace(tok) == tok \in {"}", "w}"}

\* values as Python holds them: a dict (m: key -> value), a list built by the
\* program itself (a: its items), or any other value (lit)
JNone == [t |-> "none", lit |-> "", m |-> <<>>, a |-> <<>>]
JLit(tok) == [t |-> "lit", lit |-> tok, m |-> <<>>, a |-> <<>>]
JObj(members) == [t |-> "obj", lit |-> "", m |-> members, a |-> <<>>]
JList(items) == [t |-> "list", lit |-> "", m |-> <<>>, a |-> items]

IsDict(v) == v.t = "obj"
\* dict.get(key, default) on a dict
DictGet(v, key, default) == IF key \in DOMAIN v.m THEN v.m[key] ELSE default

ParseFail == [ok |-> FALSE, val |-> JNone, next |-> 0]

RECURSIVE ParseValue(_, _), ParseMembers(_, _, _)

\* one JSON value starting at token i
ParseValue(toks, i) ==
    IF i > Len(toks) THEN ParseFail
    ELSE IF toks[i] \in LitTokens
         THEN [ok |-> TRUE, val |-> JLit(toks[i]), next |-> i + 1]
    ELSE IF toks[i] = "{" THEN ParseMembers(toks, i + 1, <<>>)
    ELSE ParseFail

\* the members of an object up to its closing brace; a repeated key keeps
\* its last value, as a Python dict does
ParseMembers(toks, i, members) ==
    IF i > Len(toks) THEN ParseFail
    ELSE IF toks[i] = "}"
         THEN [ok |-> TRUE, val |-> JObj(members), next |-> i + 1]
    ELSE IF toks[i] \in KeyTokens
         THEN LET r == ParseValue(toks, i + 1)
              IN  IF r.ok
                  THEN ParseMembers(toks, r.next, (toks[i] :> r.val) @@ members)
                  ELSE ParseFail
    ELSE ParseFail

\* json.loads: the whole text must be one value
JsonLoads(toks) ==
    LET r == ParseValue(toks, 1)
    IN  IF r.ok /\ r.next = Len(toks) + 1
        THEN [ok |-> TRUE, val |-> r.val]
        ELSE [ok |-> FALSE, val |-> JNone]

Min(a, b) == IF a < b THEN a ELSE b
Max(a, b) == IF a > b THEN a ELSE b
SetMin(S) == CHOOSE x \in S : \A y \in S : x <= y
SetMax(S) == CHOOSE x \in S : \A y \in S : x >= y

OpenAt(toks) == {i \in 1..Len(toks) : HasOpenBrace(toks[i])}
CloseAt(toks) == {j \in 1..Len(toks) : HasCloseBrace(toks[j])}

\* a span of the text the brace search could match, and its lazy variant
NoMatch == [found |-> FALSE, from |-> 0, to |-> 0]

RegexSearchLazy(toks) ==
    IF \E i \in OpenAt(toks) : \E j \in CloseAt(toks) : i < j
    THEN LET i == SetMin(OpenAt(toks))
         IN  [found |-> TRUE, from |-> i,
              to |-> SetMin({j \in CloseAt(toks) : j > i})]
    ELSE NoMatch

\* re.search(r'\{.*\}', text, re.DOTALL): from the leftmost "{" that has a
\* "}" after it, greedily to the last "}" of the text
RegexSearch(toks) ==
    IF \E i \in OpenAt(toks) : \E j \in CloseAt(toks) : i < j
    THEN [found |-> TRUE, from |-> SetMin(OpenAt(toks)),
          to |-> SetMax(CloseAt(toks))]
    ELSE NoMatch

Returned(v) == [exc |-> "none", val |-> v]
Raised(kind) == [exc |-> kind, val |-> JNone]
Pending == [exc |-> "pending", val |-> JNone]

\* the parse of generate_structured_response, the same in the three adapters
StructuredResponse(toks) ==
    LET direct == JsonLoads(toks)
    IN  IF direct.ok THEN Returned(direct.val)
        ELSE LET match == RegexSearch(toks)
             IN  IF match.found
                 THEN LET inner == JsonLoads(SubSeq(toks, match.from, match.to))
                      IN  IF inner.ok THEN Returned(inner.val)
                          ELSE Raised("JSONDecodeError")
                 ELSE Raised("CouldNotParse")

-----------------------------------------------------------------------------
(* Adapter objects and the Service's registry *)

\* AIService.providers
providers == {"gemini", "openai", "anthropic"}

ProviderClass(p) ==
    CASE p = "gemini" -> "GeminiProvider"
      [] p = "openai" -> "OpenAIProvider"
      [] p = "anthropic" -> "AnthropicProvider"

\* default_model of get_available_providers
DefaultModel(p) ==
    CASE p = "gemini" -> "gemini-2.5-flash"
      [] p = "openai" -> "gpt-3.5-turbo"
      [] p = "anthropic" -> "claude-3-sonnet-20240229"

NoCall == <<"", 0>>
\* Python's None in current_instance
NoInstance == [cls |-> "None", api_key |-> "", model |-> "", id |-> NoCall]

\* provider_class(api_key, model): a new object; id is its identity, the
\* configure call that constructed it
NewInstance(p, key, model, call) ==
    [cls |-> ProviderClass(p), api_key |-> key, model |-> model, id |-> call]

ValidateConfigLax(key) == TRUE

\* validate_config({"api_key": api_key}) == bool(config.get("api_key"))
ValidateConfig(key) == key # ""

CfgThreads == {"c1", "c2"}
ReqThreads == {"r1"}

\* what the callers pass to configure_provider
ProviderInputs == {"gemini", "openai", "bogus"}
KeyInputs == {"", "sk"}

\* no configure_provider call of the thread has returned True yet
NoSuccess == [id |-> NoCall, provider |-> "", after |-> {}]

\* after: the successful calls that had returned when the call began;
\* last_ok: the thread's latest call that returned True
CfgIdle == [pc |-> "idle", provider |-> "", api_key |-> "", inst |-> NoInstance,
            calls |-> 0, ret |-> "none", after |-> {}, last_ok |-> NoSuccess]

\* an answer text, by what the analyzer reads off it: its number of words
\* (len(answer.split())), its length in characters, and whether it holds an
\* example keyword ("example", "for instance", "specifically", "when") or a
\* technical one ("api", "database", "system", "process", "method")
NoAnswer == [words |-> 0, chars |-> 0, example |-> FALSE, technical |-> FALSE]

\* the arguments of an operation (those it does not take are left at these)
\* a metrics dict not computed yet; the floats of the code are kept exactly:
\* the rounded ones in hundredths, the quotients as <<numerator, denominator>>
NoMetrics == [kind |-> "none", average_rating |-> 0, max_rating |-> 0,
              min_rating |-> 0, consistency_score |-> 0,
              total_questions |-> 0, total_answers |-> 0,
              response_rate |-> <<0, 1>>,
              excellent_responses |-> 0, good_responses |-> 0,
              poor_responses |-> 0, duration_minutes |-> 0,
              questions_per_minute |-> <<0, 1>>]

NoArgs == [question_type |-> "", count |-> 0, answer |-> NoAnswer,
           nq |-> 0, na |-> 0, answers_text |-> TRUE, ratings |-> <<>>,
           duration |-> 0, text |-> <<>>, analysis |-> JNone]

Sections == 1..6
SectionName(i) ==
    CASE i = 1 -> "executive_summary"
      [] i = 2 -> "detailed_analysis"
      [] i = 3 -> "strengths_weaknesses"
      [] i = 4 -> "recommendations"
      [] i = 5 -> "next_steps"
      [] i = 6 -> "overall_assessment"

\* the frame of a request thread: the operation, and the Service call it makes
\*   op       the operation ("service": a bare call of the Service)
\*   svc      the Service method the operation calls
\*   guard    what the Service's "if not self.current_instance" saw
\*   adapter  the object the delegating read of self.current_instance gave
\*   served   the adapter whose generate_text put the request on the wire
\*   at_send  history: what the registry held when the request went out
\*   nets     requests.post calls made for the current Service call
\*   call     the outcome of the Service call
\*   stage    generate_report: the section being generated
\*   sections generate_report: where each section's value came from
\*   failed   generate_report: the sections whose Service call raised
\*   servers  history: the classes of the adapters that served the sections
\*            generate_report took from the model
\*   issued   history: the stage of every Service call the operation made
\*   posts    history: requests.post calls made for the operation
\*   overall_in  generate_report: the arguments of _generate_overall_assessment
\*   res      what the operation returned: kind is "ai", "fallback",
\*            "report", "fallback_report" or "raised" (with exc)
ReqIdle == [pc |-> "idle", op |-> "", svc |-> "", ops |-> 0, guard |-> "unset",
            adapter |-> NoInstance, served |-> NoInstance,
            at_send |-> NoInstance, nets |-> 0, call |-> Pending,
            args |-> NoArgs, stage |-> 0,
            sections |-> [i \in Sections |-> "none"], failed |-> {},
            metrics |-> NoMetrics,
            servers |-> {}, issued |-> <<>>, posts |-> 0,
            overall_in |-> [metrics |-> NoMetrics, detailed |-> "none"],
            res |-> [kind |-> "none", val |-> JNone, exc |-> "", provider |-> ""]]

\* AIService.__init__ with _load_default_config: GEMINI_API_KEY set or not
InitService ==
    \E envkey \in {"", "envkey"} :
        IF envkey # ""
        THEN /\ current_provider = "gemini"
             /\ current_instance =
                    NewInstance("gemini", envkey, DefaultModel("gemini"), <<"init", 0>>)
             /\ provider_writer = <<"init", 0>>
        ELSE /\ current_provider = "None"
             /\ current_instance = NoInstance
             /\ provider_writer = NoCall

-----------------------------------------------------------------------------
(* configure_provider, one step per write to the shared registry *)

\* lines 288-306: the catalog lookup, the default model, the construction of
\* the adapter and validate_config touch only locals; the call returns False
\* from here or goes on to the two assignments
CfgCall(c, provider, key) ==
    /\ cfg[c].pc = "idle"
    /\ cfg[c].calls < MaxConfigs
    /\ LET n == cfg[c].calls + 1
           inst == IF provider \in providers
                   THEN NewInstance(provider, key, DefaultModel(provider), <<c, n>>)
                   ELSE NoInstance
       IN  cfg' = [cfg EXCEPT ![c] =
                [pc |-> IF provider \in providers /\ ValidateConfig(key)
                        THEN "set_provider" ELSE "idle",
                 provider |-> provider, api_key |-> key, inst |-> inst,
                 calls |-> n,
                 ret |-> IF provider \in providers /\ ValidateConfig(key)
                         THEN "none" ELSE "False",
                 after |-> {cfg[d].last_ok.id : d \in CfgThreads} \ {NoCall},
                 last_ok |-> cfg[c].last_ok]]
    /\ UNCHANGED <<current_provider, current_instance, provider_writer, req,
                   response_text, structured_result>>

\* line 309: self.current_provider = provider
CfgSetProvider(c) ==
    /\ cfg[c].pc = "set_provider"
    /\ current_provider' = cfg[c].provider
    /\ provider_writer' = cfg[c].inst.id
    /\ cfg' = [cfg EXCEPT ![c].pc = "set_instance"]
    /\ UNCHANGED <<current_instance, req, response_text, structured_result>>

\* lines 310-313: self.current_instance = instance; return True
CfgSetInstance(c) ==
    /\ cfg[c].pc = "set_instance"
    /\ current_instance' = cfg[c].inst
    /\ cfg' = [cfg EXCEPT ![c].pc = "idle", ![c].ret = "True", ![c].after = {},
                          ![c].last_ok = [id |-> cfg[c].inst.id,
                                          provider |-> cfg[c].provider,
                                          after |-> cfg[c].after]]
    /\ UNCHANGED <<current_provider, provider_writer, req, response_text,
                   structured_result>>

ProviderOfAdapter ==
    IF current_instance = NoInstance THEN "none"
    ELSE CHOOSE p \in providers : ProviderClass(p) = current_instance.cls

\* get_current_provider: self.current_provider or "none"
GetCurrentProvider == IF current_provider = "None" THEN "none" ELSE current_provider

-----------------------------------------------------------------------------
(* AIService.generate_text / generate_structured_response and the adapter   *)
(* call they delegate to                                                   *)

ServiceOps == {"generate_text", "generate_structured_response"}

\* what the provider sends back with status 200, by way of example
ModelResponses ==
    { <<"w">>,
      <<"lit">>,
      <<"{", "}">>,
      <<"{", "questions", "lit", "followup_questions", "lit", "next_steps", "lit", "}">>,
      <<"w", "{", "questions", "lit", "}", "w">>,
      <<"w{", "{", "questions", "lit", "}">>,
      <<"{", "overall_rating", "7", "detailed_scores",
        "{", "relevance", "7", "completeness", "6", "clarity", "8",
             "specificity", "5", "professionalism", "9", "}", "}">>,
      <<"{", "overall_rating", "15", "detailed_scores",
        "{", "relevance", "0", "}", "}">> }

\* the replies a section prompt of generate_report is answered with: prose,
\* a JSON value that is no object, an empty object, an object with keys
ReportResponses ==
    { <<"w">>,
      <<"lit">>,
      <<"{", "}">>,
      <<"{", "questions", "lit", "followup_questions", "lit", "next_steps", "lit", "}">> }

\* the replies an operation's prompt is answered with
ResponsesFor(op) ==
    IF op = "generate_report" THEN ReportResponses ELSE ModelResponses

\* requests.post raising, and a status other than 200
NetworkFailures == {"TransportError", "ProviderError"}

ProviderNamed == current_provider # "None"

\* "if not self.current_instance" is false
ProviderActive == current_instance # NoInstance

AdapterNow(r) == current_instance

\* the self of the adapter method that runs: the object the Service's
\* delegating expression self.current_instance.generate_...() was bound to
AdapterOf(r) == req[r].adapter

SvcBegin(r, op) ==
    /\ req[r].pc = "idle"
    /\ req[r].ops < MaxOps
    /\ req' = [req EXCEPT ![r] =
            [ReqIdle EXCEPT !.pc = "svc_guard", !.op = "service", !.svc = op,
                            !.ops = req[r].ops]]
    /\ UNCHANGED <<current_provider, current_instance, provider_writer, cfg,
                   response_text, structured_result>>

\* lines 325-326, 332-333: raise when no provider is configured
SvcGuard(r) ==
    /\ req[r].pc = "svc_guard"
    /\ req' = [req EXCEPT ![r] =
            IF ProviderActive
            THEN [@ EXCEPT !.pc = "svc_delegate", !.guard = "active"]
            ELSE [@ EXCEPT !.pc = "svc_return", !.guard = "none",
                           !.call = Raised("NoProviderConfigured")]]
    /\ UNCHANGED <<current_provider, current_instance, provider_writer, cfg,
                   response_text, structured_result>>

\* lines 328, 335: self.current_instance is read again and the adapter's
\* method is looked up on it (None has no such attribute)
SvcDelegate(r) ==
    /\ req[r].pc = "svc_delegate"
    /\ req' = [req EXCEPT ![r] =
            IF current_instance = NoInstance
            THEN [@ EXCEPT !.pc = "svc_return", !.call = Raised("AttributeError")]
            ELSE [@ EXCEPT !.pc = "inflight", !.adapter = current_instance]]
    /\ UNCHANGED <<current_provider, current_instance, provider_writer, cfg,
                   response_text, structured_result>>

\* the adapter's generate_text (requests.post with self.api_key, timeout 30)
\* and, for a structured call, the parse of the text it returned
AdapterOutcome(op, outcome) ==
    IF outcome \in NetworkFailures THEN Raised(outcome)
    ELSE IF op = "generate_text" THEN Returned(JLit("text"))
    ELSE StructuredResponse(outcome)

AfterPostRetry(outcome) ==
    IF outcome \in NetworkFailures THEN "inflight" ELSE "svc_return"

\* where the adapter goes after requests.post: it returns the text or
\* re-raises, whatever the outcome
AfterPost(outcome) == "svc_return"

AdapterCall(r) ==
    /\ req[r].pc = "inflight"
    /\ \E outcome \in NetworkFailures \cup ResponsesFor(req[r].op) :
          req' = [req EXCEPT ![r] =
              [@ EXCEPT !.pc = AfterPost(outcome),
                        !.served = AdapterOf(r),
                        !.at_send = current_instance,
                        !.nets = @ + 1,
                        !.posts = @ + 1,
                        !.call = AdapterOutcome(req[r].svc, outcome)]]
    /\ UNCHANGED <<current_provider, current_instance, provider_writer, cfg,
                   response_text, structured_result>>

\* the Service call returns to (or raises into) a caller that used it directly
SvcReturn(r) ==
    /\ req[r].pc = "svc_return"
    /\ req[r].op = "service"
    /\ req' = [req EXCEPT ![r].pc = "idle", ![r].ops = @ + 1]
    /\ UNCHANGED <<current_provider, current_instance, provider_writer, cfg,
                   response_text, structured_result>>

Init ==
    /\ InitService
    /\ cfg = [c \in CfgThreads |-> CfgIdle]
    /\ req = [r \in ReqThreads |-> ReqIdle]
    /\ response_text = <<>>
    /\ structured_result = Pending

Next ==
    \/ \E c \in CfgThreads : \E p \in ProviderInputs : \E k \in KeyInputs :
          CfgCall(c, p, k)
    \/ \E c \in CfgThreads : CfgSetProvider(c)
    \/ \E c \in CfgThreads : CfgSetInstance(c)
    \/ \E r \in ReqThreads : \E op \in ServiceOps : SvcBegin(r, op)
    \/ \E r \in ReqThreads : SvcGuard(r)
    \/ \E r \in ReqThreads : SvcDelegate(r)
    \/ \E r \in ReqThreads : AdapterCall(r)
    \/ \E r \in ReqThreads : SvcReturn(r)

Spec == Init /\ [][Next]_vars

-----------------------------------------------------------------------------
(* The deterministic fallbacks of the domain generators *)

PyWhole(seq, n) == seq

\* seq[:n] of Python
PyPrefix(seq, n) ==
    IF n >= 0 THEN SubSeq(seq, 1, Min(n, Len(seq)))
    ELSE SubSeq(seq, 1, Max(0, Len(seq) + n))

Question(text, category, difficulty) ==
    [question |-> text, category |-> category, difficulty |-> difficulty]

\* the static catalog of _get_fallback_questions (the texts by their number)
FallbackCatalog ==
    [technical |-> << Question("technical-1", "Technical", "medium"),
                      Question("technical-2", "Technical", "easy") >>,
     behavioral |-> << Question("behavioral-1", "Behavioral", "medium"),
                       Question("behavioral-2", "Behavioral", "easy") >>,
     general |-> << Question("general-1", "General", "easy"),
                    Question("general-2", "General", "easy") >>]

FallbackQuestionsByProvider(question_type, count) ==
    PyPrefix(FallbackCatalog["general"],
             IF current_provider = "None" THEN count ELSE count - 1)

\* _get_fallback_questions
FallbackQuestions(question_type, count) ==
    LET questions == IF question_type \in DOMAIN FallbackCatalog
                     THEN FallbackCatalog[question_type]
                     ELSE FallbackCatalog["general"]
    IN  PyPrefix(questions, count)

\* _get_fallback_followup_questions
FallbackFollowups ==
    << [question |-> "followup-1", relevance |-> "Asks for concrete evidence"],
       [question |-> "followup-2", relevance |-> "Explores problem-solving approach"],
       [question |-> "followup-3", relevance |-> "Tests learning and self-reflection"] >>

Dimensions ==
    {"relevance", "completeness", "clarity", "specificity", "professionalism"}

FallbackOverallInclusive(words) ==
    IF words <= 10 THEN 3 ELSE IF words <= 30 THEN 5 ELSE IF words <= 60 THEN 7 ELSE 8

\* the word-count bands of _get_fallback_analysis
FallbackOverall(words) ==
    IF words < 10 THEN 3 ELSE IF words < 30 THEN 5 ELSE IF words < 60 THEN 7 ELSE 8
FallbackCompleteness(words) ==
    IF words < 10 THEN 2 ELSE IF words < 30 THEN 4 ELSE IF words < 60 THEN 7 ELSE 8
FallbackClarity(words) ==
    IF words < 10 THEN 4 ELSE IF words < 30 THEN 6 ELSE IF words < 60 THEN 7 ELSE 8

FallbackScores(answer) ==
    [d \in Dimensions |->
        CASE d = "relevance" -> IF answer.example THEN 7 ELSE 5
          [] d = "completeness" -> FallbackCompleteness(answer.words)
          [] d = "clarity" -> FallbackClarity(answer.words)
          [] d = "specificity" -> IF answer.technical THEN 8 ELSE 6
          [] d = "professionalism" -> IF answer.chars > 50 THEN 8 ELSE 6]

FallbackConfidenceAsSentiment(rating) ==
    IF rating >= 7 THEN "high" ELSE IF rating >= 5 THEN "medium" ELSE "low"

FallbackSentiment(rating) ==
    IF rating >= 7 THEN "positive" ELSE IF rating >= 5 THEN "neutral" ELSE "negative"
FallbackConfidence(rating) ==
    IF rating >= 8 THEN "high" ELSE IF rating >= 6 THEN "medium" ELSE "low"

\* _get_fallback_analysis, as the dict it returns
FallbackAnalysis(answer) ==
    LET overall_rating == FallbackOverall(answer.words)
        scores == FallbackScores(answer)
    IN  JObj([k \in {"overall_rating", "detailed_scores", "sentiment",
                     "confidence_level", "analysis_metadata"} |->
            CASE k = "overall_rating" -> JLit(NumLit(overall_rating))
              [] k = "detailed_scores" ->
                    JObj([d \in Dimensions |-> JLit(NumLit(scores[d]))])
              [] k = "sentiment" -> JLit(FallbackSentiment(overall_rating))
              [] k = "confidence_level" -> JLit(FallbackConfidence(overall_rating))
              [] k = "analysis_metadata" -> JLit(NumLit(answer.words))])

CountIfAbove(ratings, from, upto) ==
    Cardinality({i \in 1..Len(ratings) : from < ratings[i] /\ ratings[i] <= upto})

\* the ratings a predicate picks out of the list
CountIf(ratings, from, upto) ==
    Cardinality({i \in 1..Len(ratings) : from <= ratings[i] /\ ratings[i] <= upto})

RECURSIVE SumOver(_, _)
\* sum(f(r) for r in ratings), f given as a function
SumOver(ratings, f) ==
    IF Len(ratings) = 0 THEN 0
    ELSE f[Head(ratings)] + SumOver(Tail(ratings), f)

RatingSet(ratings) == {ratings[i] : i \in 1..Len(ratings)}

\* round(a / b, 0) of Python for a >= 0, b > 0: to the nearest, ties to even
RoundHalfEven(a, b) ==
    LET q == a \div b
        twice == 2 * (a % b)
    IN  IF twice < b THEN q
        ELSE IF twice > b THEN q + 1
        ELSE IF q % 2 = 0 THEN q ELSE q + 1

\* round(a / b, 2), in hundredths
Round2(a, b) == RoundHalfEven(100 * a, b)

\* variance = sum((r - avg_rating) ** 2 for r in ratings) / len(ratings) with
\* avg_rating = sum(ratings) / len(ratings), as <<numerator, denominator>>
Variance(ratings) ==
    LET n == Len(ratings)
        total == SumOver(ratings, [r \in RatingSet(ratings) |-> r])
        squares == SumOver(ratings,
                      [r \in RatingSet(ratings) |-> (n * r - total) * (n * r - total)])
    IN  <<squares, n * n * n>>

ConsistencyUncapped(variance) == <<10 * variance[2] - variance[1], variance[2]>>

\* consistency = 10 - min(9, variance), as <<numerator, denominator>>
Consistency(variance) ==
    IF variance[1] >= 9 * variance[2] THEN <<1, 1>>
    ELSE <<10 * variance[2] - variance[1], variance[2]>>

CalculateMetricsUnguarded(nq, na, ratings, duration) ==
    [NoMetrics EXCEPT !.kind = IF Len(ratings) = 0 \/ (duration > 0 /\ duration < 60000)
                               THEN "ZeroDivisionError" ELSE "metrics"]

\* _calculate_metrics: the marker for no ratings; ZeroDivisionError from
\* len(questions) / (duration // 60000) when 0 < duration < 60000; else the
\* metrics
CalculateMetrics(nq, na, ratings, duration) ==
    IF Len(ratings) = 0 THEN [NoMetrics EXCEPT !.kind = "error"]
    ELSE IF duration > 0 /\ duration \div 60000 = 0
         THEN [NoMetrics EXCEPT !.kind = "ZeroDivisionError"]
    ELSE LET consistency == Consistency(Variance(ratings))
         IN
         [kind |-> "metrics",
          average_rating |->
              Round2(SumOver(ratings, [r \in RatingSet(ratings) |-> r]), Len(ratings)),
          max_rating |-> SetMax(RatingSet(ratings)),
          min_rating |-> SetMin(RatingSet(ratings)),
          consistency_score |-> Round2(consistency[1], consistency[2]),
          total_questions |-> nq,
          total_answers |-> na,
          response_rate |-> IF nq # 0 THEN <<na, nq>> ELSE <<0, 1>>,
          excellent_responses |-> CountIf(ratings, 8, 1000),
          good_responses |-> CountIf(ratings, 6, 7),
          poor_responses |-> CountIf(ratings, -1000, 5),
          duration_minutes |-> IF duration # 0 THEN duration \div 60000 ELSE 0,
          questions_per_minute |->
              IF duration > 0 THEN <<nq, duration \div 60000>> ELSE <<0, 1>>]

RatingCategoryStrict(rating) ==
    IF rating > 8 THEN "Excellent"
    ELSE IF rating > 6 THEN "Good"
    ELSE IF rating > 4 THEN "Average"
    ELSE "Poor"

\* _get_rating_category
RatingCategory(rating) ==
    IF rating >= 8 THEN "Excellent"
    ELSE IF rating >= 6 THEN "Good"
    ELSE IF rating >= 4 THEN "Average"
    ELSE "Poor"

\* _generate_qa_analysis on texts: an entry per triple of
\* zip(questions, answers, ratings), the question and the answer by their
\* place in the input
QaAnalysis(nq, na, ratings) ==
    [i \in 1..Min(nq, Min(na, Len(ratings))) |->
        [question_number |-> i, question |-> i, answer |-> i,
         rating |-> ratings[i],
         rating_category |-> RatingCategory(ratings[i])]]

\* the words an answer text is made of here
TextTokens == {"Experience", "challenges", "TEAM", "steam", "learn", "other"}

LowerAsIs(tok) == tok

\* str.lower() on a word
Lower(tok) ==
    CASE tok = "Experience" -> "experience"
      [] tok = "TEAM" -> "team"
      [] OTHER -> tok

\* keyword in word, on lower-case words: the substring test
IsSubstring(keyword, word) ==
    \/ keyword = word
    \/ keyword = "challenge" /\ word = "challenges"
    \/ keyword = "team" /\ word = "steam"

\* "keyword" in answer.lower()
InLowered(keyword, text) ==
    \E i \in 1..Len(text) : IsSubstring(keyword, Lower(text[i]))

\* the keywords of _extract_key_insights with their tags, in the order of
\* its four tests
InsightTags ==
    << [keyword |-> "experience", tag |-> "Mentioned relevant experience"],
       [keyword |-> "challenge", tag |-> "Discussed challenges"],
       [keyword |-> "team", tag |-> "Referenced teamwork"],
       [keyword |-> "learn", tag |-> "Showed learning mindset"] >>

RECURSIVE AppendTags(_, _, _)
\* the appends of the tests from the k-th on
AppendTags(text, k, keywords) ==
    IF k > Len(InsightTags) THEN keywords
    ELSE AppendTags(text, k + 1,
            IF InLowered(InsightTags[k].keyword, text)
            THEN Append(keywords, InsightTags[k].tag) ELSE keywords)

\* _extract_key_insights: return keywords[:3]
ExtractKeyInsights(text) == PyPrefix(AppendTags(text, 1, <<>>), 3)

\* avg_rating = sum(ratings) / len(ratings) if ratings else 0, as
\* <<numerator, denominator>>
AvgRating(ratings) ==
    IF Len(ratings) = 0 THEN <<0, 1>>
    ELSE <<SumOver(ratings, [r \in RatingSet(ratings) |-> r]), Len(ratings)>>

Recommendations(recommendation) ==
    JObj([k \in {"recommendation", "rationale"} |->
            IF k = "recommendation" THEN JLit(recommendation) ELSE JLit("lit")])

\* _get_fallback_recommendations
FallbackRecommendations(avg_rating) ==
    Recommendations(IF avg_rating[1] >= 7 * avg_rating[2] THEN "Hire"
                    ELSE IF avg_rating[1] >= 5 * avg_rating[2] THEN "Consider"
                    ELSE "No Hire")

\* the top-level keys of the dict generate_report returns at lines 38-54
ReportKeys ==
    {"report_metadata", "executive_summary", "overall_assessment", "metrics",
     "detailed_analysis", "strengths_weaknesses", "recommendations",
     "next_steps", "qa_analysis"}

\* the top-level keys of the dict _get_fallback_report returns
FallbackReportKeys ==
    {"report_metadata", "executive_summary", "overall_assessment", "metrics",
     "recommendations"}

\* the dict of _get_fallback_report, its recommendations in full
FallbackReport ==
    JObj([k \in FallbackReportKeys |->
            IF k = "recommendations" THEN Recommendations("Manual Review Required")
            ELSE JLit("lit")])

-----------------------------------------------------------------------------
(* The domain generators: each builds its prompt and schema, makes one      *)
(* Service call and post-processes what comes back, inside try/except      *)

QuestionTypeInputs == {"technical", "behavioral", "general", "leadership"}
CountInputs == {0, 1, 5}

AnswerInputs ==
    { [words |-> 0, chars |-> 0, example |-> FALSE, technical |-> FALSE],
      [words |-> 5, chars |-> 30, example |-> TRUE, technical |-> FALSE],
      [words |-> 20, chars |-> 120, example |-> FALSE, technical |-> TRUE],
      [words |-> 45, chars |-> 260, example |-> TRUE, technical |-> TRUE],
      [words |-> 80, chars |-> 500, example |-> FALSE, technical |-> FALSE] }

\* interview_data: the numbers of questions and answers, whether every
\* answer is text (if not, the first one is null), the ratings and the
\* duration in milliseconds
ReportInputs ==
    { [nq |-> 3, na |-> 3, answers_text |-> TRUE, ratings |-> <<9, 9, 9>>,
       duration |-> 120000],
      [nq |-> 2, na |-> 1, answers_text |-> TRUE, ratings |-> <<3, 7>>,
       duration |-> 0],
      [nq |-> 1, na |-> 1, answers_text |-> TRUE, ratings |-> <<5>>,
       duration |-> 30000],
      [nq |-> 1, na |-> 1, answers_text |-> FALSE, ratings |-> <<5>>,
       duration |-> 0],
      [nq |-> 2, na |-> 2, answers_text |-> TRUE, ratings |-> <<>>,
       duration |-> 30000] }

CaughtOnlyParseErrors(exc) == exc \in {"JSONDecodeError", "CouldNotParse"}

\* "except Exception" of the generators: every failure of the Service, the
\* adapter and the parse is an Exception
Caught(exc) ==
    exc \in {"NoProviderConfigured", "AttributeError", "TransportError",
             "ProviderError", "JSONDecodeError", "CouldNotParse", "TypeError",
             "KeyError"}

\* await self.ai_service.generate_structured_response(prompt, schema)
StartCall(frame) ==
    [frame EXCEPT !.pc = "svc_guard", !.guard = "unset", !.adapter = NoInstance,
                  !.served = NoInstance, !.at_send = NoInstance, !.nets = 0,
                  !.call = Pending, !.issued = Append(@, frame.stage)]

Result(kind, val) == [kind |-> kind, val |-> val, exc |-> "", provider |-> ""]
Propagated(exc) == [kind |-> "raised", val |-> JNone, exc |-> exc, provider |-> ""]

Finish(frame, res) ==
    [frame EXCEPT !.pc = "idle", !.ops = @ + 1, !.res = res]

GenUnchanged ==
    UNCHANGED <<current_provider, current_instance, provider_writer, cfg,
                response_text, structured_result>>

\* generate_questions, lines 23-61
QuestionsBegin(r, question_type, count) ==
    /\ req[r].pc = "idle"
    /\ req[r].ops < MaxOps
    /\ req' = [req EXCEPT ![r] = StartCall(
            [ReqIdle EXCEPT !.op = "generate_questions",
                            !.svc = "generate_structured_response",
                            !.ops = req[r].ops,
                            !.args = [NoArgs EXCEPT !.question_type = question_type,
                                                    !.count = count]])]
    /\ GenUnchanged

\* what a try block that ends in response.get(key, []) gives for a call
GetOrFallback(call, key, fallback) ==
    IF call.exc # "none"
    THEN IF Caught(call.exc) THEN Result("fallback", fallback)
         ELSE Propagated(call.exc)
    ELSE IF IsDict(call.val)
         THEN Result("ai", DictGet(call.val, key, JList(<<>>)))
    ELSE IF Caught("AttributeError") THEN Result("fallback", fallback)
    ELSE Propagated("AttributeError")

\* generate_questions, lines 63-68
QuestionsReturn(r) ==
    /\ req[r].pc = "svc_return"
    /\ req[r].op = "generate_questions"
    /\ req' = [req EXCEPT ![r] = Finish(@,
            GetOrFallback(req[r].call, "questions",
                JList(FallbackQuestions(req[r].args.question_type,
                                        req[r].args.count))))]
    /\ GenUnchanged

\* generate_followup_questions, lines 157-208
FollowupBegin(r) ==
    /\ req[r].pc = "idle"
    /\ req[r].ops < MaxOps
    /\ req' = [req EXCEPT ![r] = StartCall(
            [ReqIdle EXCEPT !.op = "generate_followup_questions",
                            !.svc = "generate_structured_response",
                            !.ops = req[r].ops])]
    /\ GenUnchanged

\* generate_followup_questions, lines 209-213
FollowupReturn(r) ==
    /\ req[r].pc = "svc_return"
    /\ req[r].op = "generate_followup_questions"
    /\ req' = [req EXCEPT ![r] = Finish(@,
            GetOrFallback(req[r].call, "followup_questions",
                JList(FallbackFollowups)))]
    /\ GenUnchanged

\* analyze_answer, lines 22-77
AnalyzeBegin(r, answer) ==
    /\ req[r].pc = "idle"
    /\ req[r].ops < MaxOps
    /\ req' = [req EXCEPT ![r] = StartCall(
            [ReqIdle EXCEPT !.op = "analyze_answer",
                            !.svc = "generate_structured_response",
                            !.ops = req[r].ops,
                            !.args = [NoArgs EXCEPT !.answer = answer]])]
    /\ GenUnchanged

\* analyze_answer, lines 79-92: response["analysis_metadata"] = {...} and
\* return response; item assignment on a value that is no dict is a TypeError
AnalysisOf(call, answer) ==
    IF call.exc # "none"
    THEN IF Caught(call.exc) THEN Result("fallback", FallbackAnalysis(answer))
         ELSE Propagated(call.exc)
    ELSE IF IsDict(call.val)
         THEN Result("ai",
                JObj(("analysis_metadata" :> JLit(NumLit(answer.words)))
                     @@ call.val.m))
    ELSE IF Caught("TypeError") THEN Result("fallback", FallbackAnalysis(answer))
    ELSE Propagated("TypeError")

AnalyzeReturn(r) ==
    /\ req[r].pc = "svc_return"
    /\ req[r].op = "analyze_answer"
    /\ req' = [req EXCEPT ![r] = Finish(@, AnalysisOf(req[r].call, req[r].args.answer))]
    /\ GenUnchanged

\* an analysis dict with the keys generate_feedback reads
Analysis(overall_rating, strengths, weaknesses) ==
    JObj([k \in {"overall_rating", "strengths", "weaknesses", "suggestions"} |->
            CASE k = "overall_rating" -> JLit(overall_rating)
              [] k = "strengths" -> JList(strengths)
              [] k = "weaknesses" -> JList(weaknesses)
              [] k = "suggestions" -> JList(<<"g1">>)])

\* analyses as analyze_answer returns them: from the fallback (numbers and
\* two-item lists) and from the model (whatever the JSON held)
FeedbackInputs ==
    { Analysis(NumLit(8), <<"s1", "s2", "s3">>, <<"w1", "w2", "w3">>),
      Analysis(NumLit(6), <<"s1">>, <<>>),
      Analysis(NumLit(5), <<>>, <<"w1", "w2">>),
      Analysis("lit", <<"s1", "s2">>, <<"w1">>),
      JObj([k \in {"overall_rating"} |-> JLit(NumLit(7))]) }

\* the subscripts analysis['overall_rating'], ['strengths'], ['weaknesses']
\* (and, in the prompt, ['suggestions']) on a dict without the key
LacksKey(analysis, keys) == \E k \in keys : k \notin DOMAIN analysis.m

\* the opening sentence of _get_fallback_feedback
FeedbackOpening(rating) ==
    IF rating >= 8 THEN "Excellent response!"
    ELSE IF rating >= 6 THEN "Good response with solid points."
    ELSE "Thank you for your response."

\* _get_fallback_feedback: the text as its opening and the items of its two
\* optional sentences; "rating >= 8" on a str or None is a TypeError
FallbackFeedback(analysis) ==
    IF LacksKey(analysis, {"overall_rating", "strengths", "weaknesses"})
    THEN Propagated("KeyError")
    ELSE IF NumVal(analysis.m["overall_rating"].lit) = -1
    THEN Propagated("TypeError")
    ELSE Result("fallback",
            JObj([k \in {"opening", "strengths", "weaknesses"} |->
                CASE k = "opening" ->
                        JLit(FeedbackOpening(NumVal(analysis.m["overall_rating"].lit)))
                  [] k = "strengths" ->
                        JList(PyPrefix(analysis.m["strengths"].a, 2))
                  [] k = "weaknesses" ->
                        JList(PyPrefix(analysis.m["weaknesses"].a, 2))]))

\* generate_feedback, lines 243-261: the prompt, a KeyError if a key is
\* missing, then the Service call
FeedbackBegin(r, analysis) ==
    /\ req[r].pc = "idle"
    /\ req[r].ops < MaxOps
    /\ LET frame == [ReqIdle EXCEPT !.op = "generate_feedback",
                                    !.svc = "generate_text",
                                    !.ops = req[r].ops,
                                    !.args = [NoArgs EXCEPT !.analysis = analysis]]
       IN  req' = [req EXCEPT ![r] =
               IF ~LacksKey(analysis, {"overall_rating", "strengths",
                                       "weaknesses", "suggestions"})
               THEN StartCall(frame)
               ELSE IF Caught("KeyError")
               THEN Finish(frame, FallbackFeedback(analysis))
               ELSE Finish(frame, Propagated("KeyError"))]
    /\ GenUnchanged

\* generate_feedback, lines 262-266
FeedbackReturn(r) ==
    /\ req[r].pc = "svc_return"
    /\ req[r].op = "generate_feedback"
    /\ req' = [req EXCEPT ![r] = Finish(@,
            IF req[r].call.exc = "none" THEN Result("ai", req[r].call.val)
            ELSE IF Caught(req[r].call.exc)
            THEN FallbackFeedback(req[r].args.analysis)
            ELSE Propagated(req[r].call.exc))]
    /\ GenUnchanged

\* _get_fallback_report, which calls _calculate_metrics itself
WholeReportFallback(args) ==
    LET metrics == CalculateMetrics(args.nq, args.na, args.ratings, args.duration)
    IN  IF metrics.kind = "ZeroDivisionError" THEN Propagated("ZeroDivisionError")
        ELSE Result("fallback_report", FallbackReport)

\* _format_answers_for_prompt(answers[:3]) in the prompt of the executive
\* summary: answer_text[:200] on a null answer is a TypeError
SummaryPromptRaises(args) == ~args.answers_text /\ args.na >= 1

\* _generate_qa_analysis: answer.lower() on a null answer of the first
\* (question, answer, rating) triple is an AttributeError
QaAnalysisRaises(args) ==
    ~args.answers_text /\ args.nq >= 1 /\ args.na >= 1 /\ Len(args.ratings) >= 1

\* generate_report, lines 19-26, up to the first Service call: that of the
\* executive summary, or of the detailed analysis if the summary has fallen
\* back on its prompt
ReportBegin(r, data) ==
    /\ req[r].pc = "idle"
    /\ req[r].ops < MaxOps
    /\ LET args == [NoArgs EXCEPT !.nq = data.nq, !.na = data.na,
                                  !.answers_text = data.answers_text,
                                  !.ratings = data.ratings,
                                  !.duration = data.duration]
           frame == [ReqIdle EXCEPT !.op = "generate_report",
                                    !.svc = "generate_structured_response",
                                    !.ops = req[r].ops,
                                    !.stage = 1,
                                    !.args = args]
       IN  req' = [req EXCEPT ![r] =
               IF ~SummaryPromptRaises(args) THEN StartCall(frame)
               ELSE IF Caught("TypeError")
               THEN StartCall([frame EXCEPT !.sections[1] = "fallback", !.stage = 2])
               ELSE Finish(frame, WholeReportFallback(args))]
    /\ GenUnchanged

\* the try/except of a _generate_<section>: "return response" for every
\* section but next_steps, which returns response.get("next_steps", [])
SectionSource(stage, call) ==
    IF call.exc # "none" THEN "fallback"
    ELSE IF stage = 5 /\ ~IsDict(call.val) THEN "fallback"
    ELSE "ai"

\* the exception a _generate_<section> lets through to generate_report
SectionEscapes(stage, call) ==
    IF call.exc # "none" THEN ~Caught(call.exc)
    ELSE stage = 5 /\ ~IsDict(call.val) /\ ~Caught("AttributeError")

OverallInputRaw(frame, metrics) == [metrics |-> metrics, detailed |-> "ai"]

\* line 36: _generate_overall_assessment(metrics, detailed_analysis), the
\* locals of generate_report
OverallInput(frame, metrics) ==
    [metrics |-> metrics, detailed |-> frame.sections[2]]

\* a _generate_<section> returns into generate_report (lines 26-36); after
\* the fifth, _calculate_metrics runs (line 33)
ReportSectionReturn(r) ==
    /\ req[r].pc = "svc_return"
    /\ req[r].op = "generate_report"
    /\ LET stage == req[r].stage
           call == req[r].call
           args == req[r].args
           metrics == CalculateMetrics(args.nq, args.na, args.ratings, args.duration)
           noted == [req[r] EXCEPT
                        !.sections[stage] = SectionSource(stage, call),
                        !.failed = IF call.exc # "none" THEN @ \cup {stage} ELSE @,
                        !.servers = IF SectionSource(stage, call) = "ai"
                                    THEN @ \cup {req[r].served.cls} ELSE @,
                        !.metrics = IF stage = 5 /\ ~SectionEscapes(stage, call)
                                    THEN metrics ELSE @]
       IN  req' = [req EXCEPT ![r] =
               IF SectionEscapes(stage, call)
               THEN Finish(noted, WholeReportFallback(args))
               ELSE IF stage < 5
               THEN StartCall([noted EXCEPT !.stage = stage + 1])
               ELSE IF stage = 5
               THEN IF metrics.kind = "ZeroDivisionError"
                    THEN Finish(noted, WholeReportFallback(args))
                    ELSE StartCall([noted EXCEPT !.stage = 6,
                                       !.overall_in = OverallInput(noted, metrics)])
               ELSE [noted EXCEPT !.pc = "assemble"]]
    /\ GenUnchanged

\* the dict of lines 38-54, its recommendations in full when they are the
\* fallback ones
Report(frame) ==
    JObj([k \in ReportKeys |->
            IF k = "recommendations" /\ frame.sections[4] = "fallback"
            THEN FallbackRecommendations(AvgRating(frame.args.ratings))
            ELSE IF k = "qa_analysis"
            THEN JList(QaAnalysis(frame.args.nq, frame.args.na, frame.args.ratings))
            ELSE JLit("lit")])

\* lines 38-58: the report, with get_current_provider() in its metadata, or
\* the whole-report fallback when _generate_qa_analysis raises
ReportAssemble(r) ==
    /\ req[r].pc = "assemble"
    /\ req' = [req EXCEPT ![r] = Finish(@,
            IF QaAnalysisRaises(req[r].args)
            THEN WholeReportFallback(req[r].args)
            ELSE [Result("report", Report(req[r]))
                     EXCEPT !.provider = GetCurrentProvider])]
    /\ GenUnchanged

GenCfgThreads == {"c1"}

InitGen == Init

NextGen ==
    \/ \E c \in GenCfgThreads : \E p \in ProviderInputs : \E k \in KeyInputs :
          CfgCall(c, p, k)
    \/ \E c \in GenCfgThreads : CfgSetProvider(c)
    \/ \E c \in GenCfgThreads : CfgSetInstance(c)
    \/ \E r \in ReqThreads : \E t \in QuestionTypeInputs : \E n \in CountInputs :
          QuestionsBegin(r, t, n)
    \/ \E r \in ReqThreads : FollowupBegin(r)
    \/ \E r \in ReqThreads : \E a \in AnswerInputs : AnalyzeBegin(r, a)
    \/ \E r \in ReqThreads : \E d \in ReportInputs : ReportBegin(r, d)
    \/ \E r \in ReqThreads : \E a \in FeedbackInputs : FeedbackBegin(r, a)
    \/ \E r \in ReqThreads : SvcGuard(r)
    \/ \E r \in ReqThreads : SvcDelegate(r)
    \/ \E r \in ReqThreads : AdapterCall(r)
    \/ \E r \in ReqThreads : QuestionsReturn(r)
    \/ \E r \in ReqThreads : FollowupReturn(r)
    \/ \E r \in ReqThreads : AnalyzeReturn(r)
    \/ \E r \in ReqThreads : FeedbackReturn(r)
    \/ \E r \in ReqThreads : ReportSectionReturn(r)
    \/ \E r \in ReqThreads : ReportAssemble(r)

SpecGen == InitGen /\ [][NextGen]_vars

-----------------------------------------------------------------------------
(* SpecTwice: a caller asks for questions, and once it has them asks again   *)
(* or asks for follow-ups, while a thread configures providers              *)

TwiceThreads == {"r1", "r2"}
TwiceTypeInputs == {"technical", "leadership"}
TwiceCountInputs == {1}
\* one configure call that succeeds, one that fails
TwiceProviderInputs == {"gemini", "bogus"}

InitTwice ==
    /\ InitService
    /\ cfg = [c \in CfgThreads |-> CfgIdle]
    /\ req = [r \in TwiceThreads |-> ReqIdle]
    /\ response_text = <<>>
    /\ structured_result = Pending

\* the caller has its first answer before it calls again
Returned1 == req["r1"].pc = "idle" /\ req["r1"].ops > 0

NextTwice ==
    \/ \E c \in GenCfgThreads : \E p \in TwiceProviderInputs : CfgCall(c, p, "sk")
    \/ \E c \in GenCfgThreads : CfgSetProvider(c)
    \/ \E c \in GenCfgThreads : CfgSetInstance(c)
    \/ \E t \in TwiceTypeInputs : \E n \in TwiceCountInputs :
          QuestionsBegin("r1", t, n)
    \/ \E t \in TwiceTypeInputs : \E n \in TwiceCountInputs :
          Returned1 /\ QuestionsBegin("r2", t, n)
    \/ Returned1 /\ FollowupBegin("r2")
    \/ \E r \in TwiceThreads : SvcGuard(r)
    \/ \E r \in TwiceThreads : SvcDelegate(r)
    \/ \E r \in TwiceThreads : AdapterCall(r)
    \/ \E r \in TwiceThreads : QuestionsReturn(r)
    \/ \E r \in TwiceThreads : FollowupReturn(r)

SpecTwice == InitTwice /\ [][NextTwice]_vars

-----------------------------------------------------------------------------
(* SpecMetrics: _calculate_metrics on every bundle of up to MaxItems        *)
(* questions and answers and up to MaxRatings ratings                       *)

MaxItems == 3
MaxRatings == 3

RatingInputs == {1, 4, 5, 6, 7, 8, 9}
DurationInputs == {-1, 0, 30000, 60000, 150000}

RatingSeqs(n) == UNION {[1..k -> RatingInputs] : k \in 0..n}

InitMetrics ==
    /\ current_provider = "None"
    /\ current_instance = NoInstance
    /\ provider_writer = NoCall
    /\ cfg = [c \in CfgThreads |-> CfgIdle]
    /\ response_text = <<>>
    /\ structured_result = Pending
    /\ \E nq \in 0..MaxItems : \E na \in 0..MaxItems :
       \E ratings \in RatingSeqs(MaxRatings) : \E duration \in DurationInputs :
          req = [r \in ReqThreads |->
                    [ReqIdle EXCEPT !.args = [NoArgs EXCEPT !.nq = nq, !.na = na,
                                                            !.ratings = ratings,
                                                            !.duration = duration]]]

\* metrics = self._calculate_metrics(questions, answers, ratings, duration)
MetricsCall(r) ==
    /\ req[r].pc = "idle"
    /\ req[r].op = ""
    /\ req' = [req EXCEPT ![r] =
            [@ EXCEPT !.op = "_calculate_metrics",
                      !.ops = @ + 1,
                      !.metrics = CalculateMetrics(req[r].args.nq, req[r].args.na,
                                                   req[r].args.ratings,
                                                   req[r].args.duration)]]
    /\ GenUnchanged

\* self._generate_qa_analysis(questions, answers, ratings)
QaAnalysisCall(r) ==
    /\ req[r].pc = "idle"
    /\ req[r].op = ""
    /\ req' = [req EXCEPT ![r] =
            Finish([@ EXCEPT !.op = "_generate_qa_analysis"],
                   Result("qa_analysis",
                          JList(QaAnalysis(req[r].args.nq, req[r].args.na,
                                           req[r].args.ratings))))]
    /\ GenUnchanged

NextMetrics ==
    \/ \E r \in ReqThreads : MetricsCall(r)
    \/ \E r \in ReqThreads : QaAnalysisCall(r)

SpecMetrics == InitMetrics /\ [][NextMetrics]_vars

-----------------------------------------------------------------------------
(* SpecFallback: the fallbacks and the local heuristics of the generators,  *)
(* each on every input of its bounded input set                             *)

MaxCount == 3
MaxWords == 3

WordCounts == {0, 5, 9, 10, 29, 30, 59, 60, 80}

\* answers by their word count, their length in characters and the keywords
\* they hold
AnswerSpace ==
    { [words |-> w, chars |-> c * w, example |-> e, technical |-> t] :
        w \in WordCounts, c \in {2, 6}, e \in BOOLEAN, t \in BOOLEAN }

\* answer texts of up to n words
Texts(n) == UNION {[1..k -> TextTokens] : k \in 0..n}

FallbackArgs ==
    { [op |-> "_get_fallback_questions",
       args |-> [NoArgs EXCEPT !.question_type = t, !.count = n]] :
         t \in QuestionTypeInputs, n \in -1..MaxCount }
    \cup
    { [op |-> "_get_fallback_analysis", args |-> [NoArgs EXCEPT !.answer = a]] :
         a \in AnswerSpace }
    \cup
    { [op |-> "_get_fallback_recommendations", args |-> [NoArgs EXCEPT !.ratings = rs]] :
         rs \in RatingSeqs(MaxRatings) }
    \cup
    { [op |-> "_extract_key_insights", args |-> [NoArgs EXCEPT !.text = t]] :
         t \in Texts(MaxWords) }
    \cup
    { [op |-> "_get_fallback_report",
       args |-> [NoArgs EXCEPT !.nq = d.nq, !.na = d.na,
                               !.answers_text = d.answers_text,
                               !.ratings = d.ratings,
                               !.duration = d.duration]] : d \in ReportInputs }

InitFallback ==
    /\ current_provider = "None"
    /\ current_instance = NoInstance
    /\ provider_writer = NoCall
    /\ cfg = [c \in CfgThreads |-> CfgIdle]
    /\ response_text = <<>>
    /\ structured_result = Pending
    /\ \E f \in FallbackArgs :
          req = [r \in ReqThreads |->
                    [ReqIdle EXCEPT !.pc = "fallback", !.op = f.op, !.args = f.args]]

\* return self._get_fallback_questions(question_type, count)
FallbackQuestionsCall(r) ==
    /\ req[r].pc = "fallback"
    /\ req[r].op = "_get_fallback_questions"
    /\ req' = [req EXCEPT ![r] = Finish(@, Result("fallback",
            JList(FallbackQuestions(req[r].args.question_type, req[r].args.count))))]
    /\ GenUnchanged

\* return self._get_fallback_analysis(question, answer)
FallbackAnalysisCall(r) ==
    /\ req[r].pc = "fallback"
    /\ req[r].op = "_get_fallback_analysis"
    /\ req' = [req EXCEPT ![r] = Finish(@, Result("fallback",
            FallbackAnalysis(req[r].args.answer)))]
    /\ GenUnchanged

\* return self._get_fallback_recommendations(avg_rating)
FallbackRecommendationsCall(r) ==
    /\ req[r].pc = "fallback"
    /\ req[r].op = "_get_fallback_recommendations"
    /\ req' = [req EXCEPT ![r] = Finish(@, Result("fallback",
            FallbackRecommendations(AvgRating(req[r].args.ratings))))]
    /\ GenUnchanged

\* return self._get_fallback_report(interview_data)
FallbackReportCall(r) ==
    /\ req[r].pc = "fallback"
    /\ req[r].op = "_get_fallback_report"
    /\ req' = [req EXCEPT ![r] = Finish(@, WholeReportFallback(req[r].args))]
    /\ GenUnchanged

\* self._extract_key_insights(answer)
ExtractKeyInsightsCall(r) ==
    /\ req[r].pc = "fallback"
    /\ req[r].op = "_extract_key_insights"
    /\ req' = [req EXCEPT ![r] = Finish(@, Result("key_insights",
            JList(ExtractKeyInsights(req[r].args.text))))]
    /\ GenUnchanged

NextFallback ==
    \/ \E r \in ReqThreads : ExtractKeyInsightsCall(r)
    \/ \E r \in ReqThreads : FallbackQuestionsCall(r)
    \/ \E r \in ReqThreads : FallbackAnalysisCall(r)
    \/ \E r \in ReqThreads : FallbackRecommendationsCall(r)
    \/ \E r \in ReqThreads : FallbackReportCall(r)

SpecFallback == InitFallback /\ [][NextFallback]_vars

-----------------------------------------------------------------------------
(* SpecParse: generate_structured_response on every response of up to      *)
(* MaxLen tokens                                                           *)

ParseAlphabet == {"{", "}", "questions", "5", "w", "w{", "w}"}

TokenSeqs(n) == UNION {[1..k -> ParseAlphabet] : k \in 0..n}

\* the Service plays no part in the parse: it starts without GEMINI_API_KEY
InitParse ==
    /\ current_provider = "None"
    /\ current_instance = NoInstance
    /\ provider_writer = NoCall
    /\ cfg = [c \in CfgThreads |-> CfgIdle]
    /\ req = [r \in ReqThreads |-> ReqIdle]
    /\ response_text \in TokenSeqs(MaxLen)
    /\ structured_result = Pending

ParseResponse ==
    /\ structured_result = Pending
    /\ structured_result' = StructuredResponse(response_text)
    /\ UNCHANGED <<current_provider, current_instance, provider_writer, cfg, req,
                   response_text>>

NextParse == ParseResponse

SpecParse == InitParse /\ [][NextParse]_vars

-----------------------------------------------------------------------------
(* Claims about the registry and the Service calls (Spec) *)

InvalidConfigure(frame) == frame.provider \notin providers \/ frame.api_key = ""

\* C1: a configure_provider call whose provider is not in the catalog or
\* whose key is empty returns False, and no step of it writes the active
\* provider name or the active adapter
C1_FailedConfigureKeepsRegistry ==
    [][ \A c \in CfgThreads :
            (cfg'[c] # cfg[c] /\ InvalidConfigure(cfg'[c])) =>
                /\ cfg'[c].pc = "idle"
                /\ cfg'[c].ret = "False"
                /\ current_provider' = current_provider
                /\ current_instance' = current_instance ]_vars

\* an unknown provider name was refused while a provider was active
C1_Witness ==
    \E c \in CfgThreads :
        /\ cfg[c].pc = "idle"
        /\ cfg[c].ret = "False"
        /\ cfg[c].provider = "bogus"
        /\ current_provider # "None"
        /\ current_instance # NoInstance

\* C6: in every reachable state the active provider name and the active
\* adapter were written by the same configure call
C6_PairWrittenByOneCall == provider_writer = current_instance.id

\* C6, at rest: no configure call is running and the name and the adapter
\* still come from different calls
C6_PairWrittenByOneCallAtRest ==
    (\A c \in CfgThreads : cfg[c].pc = "idle") =>
        provider_writer = current_instance.id

\* C7: the adapter that serves a Service call is the one the call was
\* delegated to, whatever configure_provider did to the registry meanwhile
C7_InFlightCallKeepsAdapter ==
    \A r \in ReqThreads :
        req[r].nets > 0 =>
            /\ req[r].adapter # NoInstance
            /\ req[r].served = req[r].adapter

\* a call was served by its own adapter after the registry had moved on
C7_Witness ==
    \E r \in ReqThreads :
        /\ req[r].pc = "svc_return"
        /\ req[r].nets > 0
        /\ req[r].served = req[r].adapter
        /\ req[r].at_send # req[r].adapter

\* C8: a Service call that finds no provider raises the no-provider error
\* without any adapter call; one that finds a provider is delegated to it
C8_NoProviderRaisesElseDelegates ==
    \A r \in ReqThreads :
        req[r].pc = "svc_return" =>
            /\ req[r].guard = "none" =>
                  /\ req[r].call = Raised("NoProviderConfigured")
                  /\ req[r].nets = 0
                  /\ req[r].served = NoInstance
            /\ req[r].guard = "active" =>
                  /\ req[r].call.exc \notin {"NoProviderConfigured", "AttributeError"}
                  /\ req[r].nets = 1
                  /\ req[r].served # NoInstance
                  /\ req[r].served = req[r].adapter

\* a Service call was refused for want of a provider
C8_Witness ==
    \E r \in ReqThreads :
        /\ req[r].pc = "svc_return"
        /\ req[r].guard = "none"
        /\ req[r].call = Raised("NoProviderConfigured")
        /\ req[r].nets = 0

-----------------------------------------------------------------------------
(* Claims about the structured-response parse (SpecParse) *)

IsProse(toks) == \A i \in 1..Len(toks) : toks[i] \in ProseTokens \cup LitTokens
NoOpenBraceIn(toks) == \A i \in 1..Len(toks) : ~HasOpenBrace(toks[i])
NoCloseBraceIn(toks) == \A i \in 1..Len(toks) : ~HasCloseBrace(toks[i])

\* the text is prose, one well-formed JSON object at tokens i..j, prose
WrapsObjectAt(toks, i, j) ==
    /\ IsProse(SubSeq(toks, 1, i - 1))
    /\ IsProse(SubSeq(toks, j + 1, Len(toks)))
    /\ JsonLoads(SubSeq(toks, i, j)).ok
    /\ IsDict(JsonLoads(SubSeq(toks, i, j)).val)

Spans(toks) == {ij \in (1..Len(toks)) \X (1..Len(toks)) : ij[1] <= ij[2]}

ParseDone == structured_result # Pending

\* C9 as stated: whatever the prose around it, the embedded object is returned
C9_AnyProseExtracts ==
    ParseDone =>
        \A ij \in Spans(response_text) :
            WrapsObjectAt(response_text, ij[1], ij[2]) =>
                structured_result =
                    Returned(JsonLoads(SubSeq(response_text, ij[1], ij[2])).val)

\* C9 amended: a response that is one well-formed JSON object wrapped in
\* prose with no "{" before the object and no "}" after it parses to exactly
\* that object
C9_BraceFreeProseExtracts ==
    ParseDone =>
        \A ij \in Spans(response_text) :
            ( /\ WrapsObjectAt(response_text, ij[1], ij[2])
              /\ NoOpenBraceIn(SubSeq(response_text, 1, ij[1] - 1))
              /\ NoCloseBraceIn(SubSeq(response_text, ij[2] + 1, Len(response_text))) )
            => structured_result =
                   Returned(JsonLoads(SubSeq(response_text, ij[1], ij[2])).val)

\* a nested object between two stretches of prose has been extracted
C9_Witness ==
    /\ ParseDone
    /\ \E ij \in Spans(response_text) :
          /\ ij[1] > 1
          /\ ij[2] < Len(response_text)
          /\ ij[2] - ij[1] >= 2
          /\ WrapsObjectAt(response_text, ij[1], ij[2])
          /\ structured_result =
                 Returned(JsonLoads(SubSeq(response_text, ij[1], ij[2])).val)

\* the "required" list of the question schema
RequiredFields == {"questions"}

\* C10: what is returned is a mapping holding every required field of the
\* schema; anything else is a raised failure
C10_ObjectWithRequiredOrFailure ==
    ParseDone =>
        \/ structured_result.exc \in {"JSONDecodeError", "CouldNotParse"}
        \/ /\ structured_result.exc = "none"
           /\ IsDict(structured_result.val)
           /\ RequiredFields \subseteq DOMAIN structured_result.val.m

-----------------------------------------------------------------------------
(* Claims about the domain generators (SpecGen) *)

ContentOps == {"generate_questions", "generate_followup_questions", "analyze_answer"}

ServiceFailures ==
    {"NoProviderConfigured", "TransportError", "ProviderError",
     "JSONDecodeError", "CouldNotParse"}

\* the deterministic fallback result of a content operation for its arguments
FallbackOf(frame) ==
    CASE frame.op = "generate_questions" ->
            JList(FallbackQuestions(frame.args.question_type, frame.args.count))
      [] frame.op = "generate_followup_questions" -> JList(FallbackFollowups)
      [] frame.op = "analyze_answer" -> FallbackAnalysis(frame.args.answer)

Finished(frame) == frame.pc = "idle" /\ frame.res.kind # "none"

\* C2: generate_questions, generate_followup_questions and analyze_answer
\* never let a failure out, and when their Service call failed (no provider,
\* transport or provider error, unparseable response) what they return is
\* their deterministic fallback result
C2_ServiceFailureBecomesFallback ==
    \A r \in ReqThreads :
        (Finished(req[r]) /\ req[r].op \in ContentOps) =>
            /\ req[r].res.kind # "raised"
            /\ req[r].call.exc # "none" =>
                  /\ req[r].res.kind = "fallback"
                  /\ req[r].res.val = FallbackOf(req[r])

\* analyze_answer has returned its fallback after the Service found no provider
C2_Witness ==
    \E r \in ReqThreads :
        /\ Finished(req[r])
        /\ req[r].op = "analyze_answer"
        /\ req[r].call.exc = "NoProviderConfigured"
        /\ req[r].res.kind = "fallback"
        /\ req[r].res.val = FallbackAnalysis(req[r].args.answer)

\* C3: generate_report never raises to its caller, whatever the bundle and
\* whichever provider calls fail
C3_ReportNeverRaises ==
    \A r \in ReqThreads :
        req[r].op = "generate_report" => req[r].res.kind # "raised"

\* C4: in a returned report, exactly the sections whose provider call failed
\* hold their fallback value and the others hold the AI-generated value
C4_SectionsFallBackIndependently ==
    \A r \in ReqThreads :
        (Finished(req[r]) /\ req[r].res.kind = "report") =>
            \A i \in Sections :
                /\ i \in req[r].failed <=> req[r].sections[i] = "fallback"
                /\ i \notin req[r].failed <=> req[r].sections[i] = "ai"

InRange(v) == v.t = "lit" /\ NumVal(v.lit) \in 1..10

\* C5: every result of analyze_answer has detailed_scores with exactly the
\* five dimensions, and overall_rating and every detailed score in 1..10
C5_AnalysisScoresInRange ==
    \A r \in ReqThreads :
        (Finished(req[r]) /\ req[r].op = "analyze_answer"
                          /\ req[r].res.kind \in {"ai", "fallback"}) =>
            LET result == req[r].res.val
                scores == DictGet(result, "detailed_scores", JNone)
            IN  /\ IsDict(result)
                /\ "overall_rating" \in DOMAIN result.m
                /\ InRange(result.m["overall_rating"])
                /\ IsDict(scores)
                /\ DOMAIN scores.m = Dimensions
                /\ \A d \in DOMAIN scores.m : InRange(scores.m[d])

-----------------------------------------------------------------------------
(* Claims about the metrics (SpecMetrics) *)

MetricsDone(frame) == frame.op = "_calculate_metrics" /\ frame.metrics.kind = "metrics"

\* the population variance (n * sum of squares - square of the sum) / n^2
PopulationVariance(ratings) ==
    LET n == Len(ratings)
        total == SumOver(ratings, [r \in RatingSet(ratings) |-> r])
        squares == SumOver(ratings, [r \in RatingSet(ratings) |-> r * r])
    IN  <<n * squares - total * total, n * n>>

\* 10 - min(9, variance), in hundredths when that is a whole number of them
ExactConsistency(ratings) ==
    LET v == PopulationVariance(ratings)
        c == IF v[1] >= 9 * v[2] THEN <<1, 1>> ELSE <<10 * v[2] - v[1], v[2]>>
    IN  c

\* C11 as stated: consistency_score equals 10 - min(9, population variance)
C11_ConsistencyIsExact ==
    \A r \in ReqThreads :
        MetricsDone(req[r]) =>
            LET c == ExactConsistency(req[r].args.ratings)
            IN  /\ req[r].metrics.consistency_score * c[2] = 100 * c[1]
                /\ req[r].metrics.consistency_score \in 100..1000

\* C11 amended: consistency_score is 10 - min(9, population variance) rounded
\* to two decimals, so within half a hundredth of it, and lies in [1,10]
C11_ConsistencyRounded ==
    \A r \in ReqThreads :
        MetricsDone(req[r]) =>
            LET c == ExactConsistency(req[r].args.ratings)
                diff == 2 * (req[r].metrics.consistency_score * c[2] - 100 * c[1])
            IN  /\ diff <= c[2] /\ -diff <= c[2]
                /\ req[r].metrics.consistency_score \in 100..1000

\* ratings 1, 1, 4 have variance 2, ratings 1, 9 have variance 16: the
\* score is 8 for the first, the floor 1 for the second
C11_Witness ==
    \E r \in ReqThreads :
        /\ MetricsDone(req[r])
        /\ \/ req[r].args.ratings = <<1, 1, 4>> /\ req[r].metrics.consistency_score = 800
           \/ req[r].args.ratings = <<1, 9>> /\ req[r].metrics.consistency_score = 100

\* how many ratings _get_rating_category puts in one of the categories
CategoryCount(ratings, categories) ==
    Cardinality({i \in 1..Len(ratings) : RatingCategory(ratings[i]) \in categories})

\* C12 as stated: the three buckets count the ratings categorised Excellent,
\* Good and Poor
C12_BucketsAreCategories ==
    \A r \in ReqThreads :
        MetricsDone(req[r]) =>
            /\ req[r].metrics.excellent_responses =
                   CategoryCount(req[r].args.ratings, {"Excellent"})
            /\ req[r].metrics.good_responses =
                   CategoryCount(req[r].args.ratings, {"Good"})
            /\ req[r].metrics.poor_responses =
                   CategoryCount(req[r].args.ratings, {"Poor"})

\* C12 amended: excellent_responses and good_responses count the ratings
\* categorised Excellent and Good, poor_responses counts every rating below
\* 6, categorised Average or Poor; ratings 9, 9, 9 give 3 and 0
C12_PoorBucketHoldsAverage ==
    \A r \in ReqThreads :
        MetricsDone(req[r]) =>
            /\ req[r].metrics.excellent_responses =
                   CategoryCount(req[r].args.ratings, {"Excellent"})
            /\ req[r].metrics.good_responses =
                   CategoryCount(req[r].args.ratings, {"Good"})
            /\ req[r].metrics.poor_responses =
                   CategoryCount(req[r].args.ratings, {"Average", "Poor"})
            /\ req[r].args.ratings = <<9, 9, 9>> =>
                  /\ req[r].metrics.excellent_responses = 3
                  /\ req[r].metrics.poor_responses = 0

\* three questions, three answers, ratings 9, 9, 9
C12_Witness ==
    \E r \in ReqThreads :
        /\ MetricsDone(req[r])
        /\ req[r].args.nq = 3 /\ req[r].args.na = 3
        /\ req[r].args.ratings = <<9, 9, 9>>
        /\ req[r].metrics.excellent_responses = 3
        /\ req[r].metrics.poor_responses = 0

\* C13: response_rate is len(answers) / len(questions), 0 without questions,
\* and lies in [0,1]
C13_ResponseRateInUnitInterval ==
    \A r \in ReqThreads :
        MetricsDone(req[r]) =>
            LET rate == req[r].metrics.response_rate
            IN  /\ req[r].args.nq = 0 => rate[1] = 0
                /\ req[r].args.nq # 0 => rate[1] * req[r].args.nq = req[r].args.na * rate[2]
                /\ 0 <= rate[1] /\ rate[1] <= rate[2]

\* C14: with ratings, _calculate_metrics returns metrics for every duration:
\* duration_minutes is duration \div 60000 and questions_per_minute is 0 for
\* duration <= 0 and a defined number otherwise
C14_NoDivisionByZero ==
    \A r \in ReqThreads :
        (req[r].op = "_calculate_metrics" /\ Len(req[r].args.ratings) > 0) =>
            /\ req[r].metrics.kind = "metrics"
            /\ req[r].metrics.duration_minutes = req[r].args.duration \div 60000
            /\ req[r].args.duration <= 0 => req[r].metrics.questions_per_minute[1] = 0
            /\ req[r].metrics.questions_per_minute[2] # 0

-----------------------------------------------------------------------------
(* Claims about the fallbacks (SpecFallback) *)

CatalogFor(question_type) ==
    IF question_type \in {"technical", "behavioral", "general"}
    THEN FallbackCatalog[question_type]
    ELSE FallbackCatalog["general"]

\* C15: for a count >= 0 the fallback questions are the first
\* min(count, catalog size) entries, in order, of the catalog of the type
\* ("general" for a type without one): never more than count, and every
\* difficulty is easy, medium or hard
C15_FallbackIsCatalogPrefix ==
    \A r \in ReqThreads :
        (Finished(req[r]) /\ req[r].op = "_get_fallback_questions"
                          /\ req[r].args.count >= 0) =>
            LET catalog == CatalogFor(req[r].args.question_type)
                out == req[r].res.val.a
            IN  /\ req[r].res.val.t = "list"
                /\ Len(out) = Min(req[r].args.count, Len(catalog))
                /\ Len(out) <= req[r].args.count
                /\ \A i \in 1..Len(out) :
                      /\ out[i] = catalog[i]
                      /\ out[i].difficulty \in {"easy", "medium", "hard"}

\* one question asked of a type without a catalog: the first general one
C15_Witness ==
    \E r \in ReqThreads :
        /\ Finished(req[r])
        /\ req[r].op = "_get_fallback_questions"
        /\ req[r].args.question_type = "leadership"
        /\ req[r].args.count = 1
        /\ req[r].res.val.a = << FallbackCatalog["general"][1] >>

\* the band of a word count: under 10, under 30, under 60, the rest
WordBand(words) ==
    CASE words < 10 -> 3
      [] words >= 10 /\ words < 30 -> 5
      [] words >= 30 /\ words < 60 -> 7
      [] words >= 60 -> 8

\* C17: the fallback overall_rating is the band of the answer's word count
\* (3, 5, 7, 8; 3 for five words), whatever keywords the answer holds
C17_FallbackRatingByWordCount ==
    \A r \in ReqThreads :
        (Finished(req[r]) /\ req[r].op = "_get_fallback_analysis") =>
            /\ req[r].res.val.m["overall_rating"] =
                   JLit(NumLit(WordBand(req[r].args.answer.words)))
            /\ req[r].args.answer.words = 5 =>
                   NumVal(req[r].res.val.m["overall_rating"].lit) = 3

\* an answer of ten words with an example and technical terms is rated 5
C17_Witness ==
    \E r \in ReqThreads :
        /\ Finished(req[r])
        /\ req[r].op = "_get_fallback_analysis"
        /\ req[r].args.answer.words = 10
        /\ req[r].args.answer.example /\ req[r].args.answer.technical
        /\ NumVal(req[r].res.val.m["overall_rating"].lit) = 5

\* the "required" list and the enum of the recommendations schema
RecommendationRequired == {"recommendation", "rationale"}
RecommendationEnum == {"Strong Hire", "Hire", "No Hire", "Strong No Hire"}

\* the recommendations a fallback has returned: those of
\* _get_fallback_recommendations or those inside the fallback report
FallbackRecommendationsOf(frame) ==
    IF frame.op = "_get_fallback_report" THEN frame.res.val.m["recommendations"]
    ELSE frame.res.val

\* C18: the whole-report fallback has every top-level section of the report
C18_FallbackReportHasAllSections ==
    \A r \in ReqThreads :
        (Finished(req[r]) /\ req[r].res.kind = "fallback_report") =>
            ReportKeys \subseteq DOMAIN req[r].res.val.m

\* C19: every fallback recommendations object has the required fields and a
\* recommendation out of the enum of the schema
C19_FallbackRecommendationsInSchema ==
    \A r \in ReqThreads :
        (Finished(req[r]) /\ req[r].res.kind \in {"fallback", "fallback_report"}
            /\ req[r].op \in {"_get_fallback_recommendations", "_get_fallback_report"}) =>
            LET recs == FallbackRecommendationsOf(req[r])
            IN  /\ RecommendationRequired \subseteq DOMAIN recs.m
                /\ recs.m["recommendation"].lit \in RecommendationEnum

-----------------------------------------------------------------------------
(* Claims about repeated calls (SpecTwice) *)

FellBack(frame) ==
    Finished(frame) /\ frame.op = "generate_questions" /\ frame.res.kind = "fallback"

-----------------------------------------------------------------------------
(* Claims about reports without ratings (SpecGen) *)

\* C20: without ratings _calculate_metrics returns the error marker and
\* nothing computed, and generate_report returns a complete report whose
\* metrics are that marker
C20_NoRatingsGivesMarker ==
    \A r \in ReqThreads :
        (Finished(req[r]) /\ req[r].op = "generate_report"
                          /\ Len(req[r].args.ratings) = 0) =>
            /\ req[r].res.kind = "report"
            /\ DOMAIN req[r].res.val.m = ReportKeys
            /\ req[r].metrics = [NoMetrics EXCEPT !.kind = "error"]

\* a report without ratings, of half a minute, every provider call failed
C20_Witness ==
    \E r \in ReqThreads :
        /\ Finished(req[r])
        /\ req[r].op = "generate_report"
        /\ req[r].args.ratings = <<>>
        /\ req[r].args.duration = 30000
        /\ req[r].failed = Sections
        /\ req[r].res.kind = "report"
        /\ req[r].metrics.kind = "error"

-----------------------------------------------------------------------------
(* Claims about the name of the active provider (Spec) *)

ConfigureAtRest == \A c \in CfgThreads : cfg[c].pc = "idle"

\* the configure_provider calls that have returned True, the one the
\* constructor makes with GEMINI_API_KEY apart
Successes == {cfg[c].last_ok : c \in CfgThreads} \ {NoSuccess}

\* a successful call that no other successful call came after: none began
\* when it had returned
Latest(ok) == \A other \in Successes : ok.id \notin other.after

\* C21: with no configure call running, get_current_provider returns "none"
\* exactly when no call has succeeded, and otherwise the name of a latest
\* successful call ("gemini" when only the constructor's call succeeded);
\* once a call has succeeded the service is never unconfigured again
C21_NameOfLatestSuccess ==
    /\ ConfigureAtRest =>
          /\ GetCurrentProvider = "none" <=>
                (Successes = {} /\ provider_writer = NoCall)
          /\ (Successes = {} /\ provider_writer # NoCall) =>
                GetCurrentProvider = "gemini"
          /\ Successes # {} =>
                \E ok \in Successes :
                    /\ ok.id = provider_writer
                    /\ GetCurrentProvider = ok.provider
                    /\ Latest(ok)
    /\ (Successes # {} \/ provider_writer = <<"init", 0>>) =>
          /\ GetCurrentProvider # "none"
          /\ current_instance # NoInstance

\* one thread has configured openai; then the other's call with an unknown
\* provider has failed and a generation call has failed in transport: the
\* name is still openai
C21_Witness ==
    /\ ConfigureAtRest
    /\ cfg["c1"].last_ok.provider = "openai"
    /\ cfg["c2"].ret = "False"
    /\ cfg["c1"].last_ok.id \in cfg["c2"].after
    /\ \E r \in ReqThreads : req[r].call.exc = "TransportError" /\ req[r].pc = "idle"
    /\ GetCurrentProvider = "openai"

-----------------------------------------------------------------------------
(* Claims about qa_analysis (SpecMetrics) *)

\* Excellent from 8, Good from 6, Average from 4, Poor below
CategoryByThreshold(rating) ==
    CASE rating >= 8 -> "Excellent"
      [] rating >= 6 /\ rating < 8 -> "Good"
      [] rating >= 4 /\ rating < 6 -> "Average"
      [] rating < 4 -> "Poor"

\* C22: qa_analysis has min(len(questions), len(answers), len(ratings))
\* entries in input order, numbered 1..n, each with the category of its rating
C22_QaAnalysisAligned ==
    \A r \in ReqThreads :
        (Finished(req[r]) /\ req[r].op = "_generate_qa_analysis") =>
            LET entries == req[r].res.val.a
                args == req[r].args
            IN  /\ Len(entries) = SetMin({args.nq, args.na, Len(args.ratings)})
                /\ \A i \in 1..Len(entries) :
                      /\ entries[i].question_number = i
                      /\ entries[i].question = i
                      /\ entries[i].answer = i
                      /\ entries[i].rating = args.ratings[i]
                      /\ entries[i].rating_category =
                             CategoryByThreshold(args.ratings[i])

\* three questions, two answers, ratings 8, 6, 4: two entries, Excellent
\* and Good
C22_Witness ==
    \E r \in ReqThreads :
        /\ Finished(req[r])
        /\ req[r].op = "_generate_qa_analysis"
        /\ req[r].args.nq = 3 /\ req[r].args.na = 2
        /\ req[r].args.ratings = <<8, 6, 4>>
        /\ Len(req[r].res.val.a) = 2
        /\ req[r].res.val.a[1].rating_category = "Excellent"
        /\ req[r].res.val.a[2].rating_category = "Good"

-----------------------------------------------------------------------------
(* Claims about the key insights (SpecFallback) *)

\* the keywords a word holds when case is ignored
KeywordsOf(word) ==
    CASE word = "Experience" -> {"experience"}
      [] word = "challenges" -> {"challenge"}
      [] word \in {"TEAM", "steam"} -> {"team"}
      [] word = "learn" -> {"learn"}
      [] OTHER -> {}

Present(text) == UNION {KeywordsOf(text[i]) : i \in 1..Len(text)}

TagOf(keyword) ==
    CASE keyword = "experience" -> "Mentioned relevant experience"
      [] keyword = "challenge" -> "Discussed challenges"
      [] keyword = "team" -> "Referenced teamwork"
      [] keyword = "learn" -> "Showed learning mindset"

TagRank(tag) ==
    CASE tag = "Mentioned relevant experience" -> 1
      [] tag = "Discussed challenges" -> 2
      [] tag = "Referenced teamwork" -> 3
      [] tag = "Showed learning mindset" -> 4

-----------------------------------------------------------------------------
(* Claims about the order of the calls of generate_report (SpecGen) *)

InReport(frame) == frame.op = "generate_report" /\ frame.stage >= 1

\* C24: within a generate_report call the Service calls go out one after
\* another in the order of the six sections, each after the one before it
\* has returned; the metrics are computed when the first five sections are
\* there and before the overall-assessment call, and that call is given
\* these metrics and the detailed analysis the report holds, AI or fallback
C24_SectionsInSequence ==
    \A r \in ReqThreads :
        InReport(req[r]) =>
            LET frame == req[r]
                issued == frame.issued
            IN  /\ \A k \in 1..Len(issued) : issued[k] \in Sections
                /\ \A j \in 1..Len(issued) : \A k \in 1..Len(issued) :
                      j < k => /\ issued[j] < issued[k]
                               /\ frame.sections[issued[j]] # "none"
                /\ frame.metrics # NoMetrics =>
                      \A i \in 1..5 : frame.sections[i] # "none"
                /\ (\E k \in 1..Len(issued) : issued[k] = 6) =>
                      /\ frame.metrics # NoMetrics
                      /\ frame.overall_in.metrics = frame.metrics
                      /\ frame.overall_in.detailed = frame.sections[2]
                /\ frame.res.kind = "report" =>
                      /\ \A i \in Sections : frame.sections[i] # "none"
                      /\ frame.overall_in.detailed = frame.sections[2]

\* a report whose six calls went out and whose detailed analysis is the
\* fallback one, which the overall-assessment call was given
C24_Witness ==
    \E r \in ReqThreads :
        /\ Finished(req[r])
        /\ req[r].res.kind = "report"
        /\ req[r].issued = <<1, 2, 3, 4, 5, 6>>
        /\ req[r].sections[2] = "fallback"
        /\ req[r].sections[6] = "ai"
        /\ req[r].overall_in.detailed = "fallback"
        /\ req[r].overall_in.metrics.kind = "metrics"

-----------------------------------------------------------------------------
(* Claims about the fallback of generate_questions (SpecGen) *)

\* C25: generate_questions returns the fallback catalog only when its
\* structured call raised; whenever the call returned, the result is the
\* "questions" value of what it returned (the empty list when the key is
\* absent) and the fallback catalog is not used
C25_FallbackOnlyOnServiceFailure ==
    \A r \in ReqThreads :
        (Finished(req[r]) /\ req[r].op = "generate_questions") =>
            /\ req[r].res.kind = "fallback" => req[r].call.exc \in ServiceFailures
            /\ req[r].call.exc = "none" =>
                  /\ req[r].res.kind = "ai"
                  /\ IsDict(req[r].call.val)
                  /\ req[r].res.val =
                        DictGet(req[r].call.val, "questions", JList(<<>>))

\* the part of C25 that holds: from an object the call returned, the
\* "questions" value or the empty list
C25_ObjectGivesItsQuestions ==
    \A r \in ReqThreads :
        (Finished(req[r]) /\ req[r].op = "generate_questions"
            /\ req[r].call.exc = "none" /\ IsDict(req[r].call.val)) =>
                /\ req[r].res.kind = "ai"
                /\ req[r].res.val =
                      DictGet(req[r].call.val, "questions", JList(<<>>))

-----------------------------------------------------------------------------
(* Claims about degradation (SpecTwice) *)

\* a step of an operation that ends on its fallback path
FallsBack(r) ==
    /\ req[r].pc = "svc_return"
    /\ req'[r].pc = "idle"
    /\ req'[r].res.kind = "fallback"

\* an operation that falls back leaves the active name and adapter alone
C26_FallbackLeavesRegistry ==
    [][\A r \in TwiceThreads :
          FallsBack(r) => UNCHANGED <<current_provider, current_instance>>]_vars

\* what the second operation returns is what its own call gave, whether the
\* first operation fell back or not
C26_ObjectGivesAIResult ==
    \A r \in TwiceThreads :
        (Finished(req[r]) /\ req[r].call.exc = "none" /\ IsDict(req[r].call.val))
            => req[r].res.kind = "ai"

\* C26: degradation is per call and memoryless: an operation that fell back
\* changes neither the active provider name nor the adapter, and a later
\* operation whose call succeeds returns the AI-generated result, however
\* many operations fell back before it
C26_DegradationMemoryless ==
    /\ C26_FallbackLeavesRegistry
    /\ [](\A r \in TwiceThreads :
              (Finished(req[r]) /\ req[r].call.exc = "none")
                  => req[r].res.kind = "ai")

\* the first operation fell back, the second one's call returned an object
\* and its result is the AI one
C26_AfterFallbackAIResult ==
    /\ FellBack(req["r1"])
    /\ Finished(req["r2"])
    /\ req["r2"].call.exc = "none"
    /\ IsDict(req["r2"].call.val)
    /\ req["r2"].res.kind = "ai"

-----------------------------------------------------------------------------
(* Claims about generate_feedback (SpecGen) *)

ServiceCallFailed(frame) == frame.call.exc \notin {"none", "pending"}

\* the fallback text the claim describes for an analysis
FeedbackTextOf(analysis) ==
    LET rating == NumVal(analysis.m["overall_rating"].lit)
        strengths == analysis.m["strengths"].a
        weaknesses == analysis.m["weaknesses"].a
    IN  JObj([k \in {"opening", "strengths", "weaknesses"} |->
            CASE k = "opening" ->
                    JLit(CASE rating >= 8 -> "Excellent response!"
                           [] rating \in 6..7 -> "Good response with solid points."
                           [] OTHER -> "Thank you for your response.")
              [] k = "strengths" ->
                    JList([i \in 1..Min(2, Len(strengths)) |-> strengths[i]])
              [] k = "weaknesses" ->
                    JList([i \in 1..Min(2, Len(weaknesses)) |-> weaknesses[i]])])

\* C27: when its Service call fails generate_feedback does not raise and
\* returns the fallback text, the opening of the rating band followed by at
\* most the first 2 strengths and the first 2 weaknesses, for every analysis
C27_FeedbackFallsBack ==
    \A r \in ReqThreads :
        (Finished(req[r]) /\ req[r].op = "generate_feedback"
                          /\ ServiceCallFailed(req[r])) =>
            /\ req[r].res.kind = "fallback"
            /\ req[r].res.val = FeedbackTextOf(req[r].args.analysis)

\* the part of C27 that holds: for an analysis whose overall_rating is a
\* number the fallback text is returned
C27_NumberRatingFallsBack ==
    \A r \in ReqThreads :
        (Finished(req[r]) /\ req[r].op = "generate_feedback"
            /\ ServiceCallFailed(req[r])
            /\ NumVal(req[r].args.analysis.m["overall_rating"].lit) >= 0) =>
                /\ req[r].res.kind = "fallback"
                /\ req[r].res.val = FeedbackTextOf(req[r].args.analysis)

-----------------------------------------------------------------------------
(* Claims about sentiment and confidence of the fallback analysis           *)
(* (SpecFallback)                                                           *)

FallbackTriple(result) ==
    << NumVal(result.m["overall_rating"].lit),
       result.m["sentiment"].lit,
       result.m["confidence_level"].lit >>

\* C28: in the fallback analysis sentiment is positive from rating 7,
\* neutral from 5, else negative, and confidence_level is high from 8,
\* medium from 6, else low, both on the banded overall_rating; so the triple
\* is one of (3, negative, low), (5, neutral, low), (7, positive, medium),
\* (8, positive, high)
C28_SentimentAndConfidenceBanded ==
    \A r \in ReqThreads :
        (Finished(req[r]) /\ req[r].op = "_get_fallback_analysis") =>
            LET triple == FallbackTriple(req[r].res.val)
                rating == triple[1]
            IN  /\ triple[2] = "positive" <=> rating >= 7
                /\ triple[2] = "neutral" <=> rating \in 5..6
                /\ triple[2] = "negative" <=> rating < 5
                /\ triple[3] = "high" <=> rating >= 8
                /\ triple[3] = "medium" <=> rating \in 6..7
                /\ triple[3] = "low" <=> rating < 6
                /\ triple \in { <<3, "negative", "low">>, <<5, "neutral", "low">>,
                                <<7, "positive", "medium">>,
                                <<8, "positive", "high">> }

\* an answer in the band of rating 7: positive, but only medium confidence
C28_Witness ==
    \E r \in ReqThreads :
        /\ Finished(req[r])
        /\ req[r].op = "_get_fallback_analysis"
        /\ FallbackTriple(req[r].res.val) = <<7, "positive", "medium">>

-----------------------------------------------------------------------------
(* Claims about the provider a report names (SpecGen) *)

PrimaryReport(frame) == Finished(frame) /\ frame.res.kind = "report"

NamesItsServers(frame) ==
    \A cls \in frame.servers :
        /\ frame.res.provider \in providers
        /\ cls = ProviderClass(frame.res.provider)

\* C29: in every report of the primary path, report_metadata.ai_provider
\* names the provider whose adapter served the sections the report took
\* from the model, also when configure_provider calls run between the six
\* sub-generations
C29_ReportNamesItsProvider ==
    \A r \in ReqThreads : PrimaryReport(req[r]) => NamesItsServers(req[r])

\* the part of C29 that holds: a report during which no configure_provider
\* call ran names the provider that served it
C29_NamesProviderWithoutConfigure ==
    \A r \in ReqThreads :
        (PrimaryReport(req[r]) /\ \A c \in CfgThreads : cfg[c].calls = 0)
            => NamesItsServers(req[r])

-----------------------------------------------------------------------------
(* Claims about retries (SpecGen) *)

\* the Service calls an operation may make
CallBudget(op) ==
    CASE op \in ContentOps -> 1
      [] op = "generate_report" -> 6
      [] OTHER -> 1

\* C30: no operation retries a failed provider call: generate_questions,
\* generate_followup_questions and analyze_answer make at most one Service
\* call, generate_report at most six, one per section, and no Service call
\* sends more than one request to the provider
C30_NoRetries ==
    \A r \in ReqThreads :
        req[r].op \in ContentOps \cup {"generate_report"} =>
            LET issued == req[r].issued
            IN  /\ Len(issued) <= CallBudget(req[r].op)
                /\ \A j \in 1..Len(issued) : \A k \in 1..Len(issued) :
                      issued[j] = issued[k] => j = k
                /\ req[r].posts <= Len(issued)
                /\ req[r].nets <= 1

\* a report three of whose provider requests failed: six requests went out
\* for its six calls, none of them a second time
C30_Witness ==
    \E r \in ReqThreads :
        /\ PrimaryReport(req[r])
        /\ req[r].failed = {1, 3, 6}
        /\ req[r].servers # {}
        /\ req[r].issued = <<1, 2, 3, 4, 5, 6>>
        /\ req[r].posts = 6

====
